---- MODULE Spec2Model ----
(***************************************************************************)
(* Vector3DTilePrimitive (Source/Scene/Vector3DTilePrimitive.js): the      *)
(* batching / re-batching engine of a batch of classification meshes and   *)
(* the draw commands it derives from the batches.                          *)
(*                                                                         *)
(* Offsets and counts are element offsets into the index buffer, 0-based   *)
(* as in the source; sequences are 1-based, so element e of a buffer is    *)
(* buffer[e + 1].  A mesh's table index is its 1-based position in the     *)
(* batchIds array.                                                         *)
(***************************************************************************)
EXTENDS Integers, Sequences, FiniteSets, TLC

\* ------------------------------------------------------------------ bounds
\* Elements that precede the view options.indices in its underlying
\* ArrayBuffer when the caller passes a view with a non-zero byteOffset.
PadLength == 1
\* Number of update-commands / apply-style calls explored in one behaviour.
MaxEdits == 2
\* Deferred frames followed by the specification that explores every frame
\* state; SpecThrottle follows the deferral to the cap.
MaxDeferred == 1

\* ---------------------------------------------------------- program constant
\* The staleness cap of rebatchCommands.
RebatchFrames == 120

\* ------------------------------------------------------------------ helpers
Min(S) == CHOOSE x \in S : \A y \in S : x <= y

Range(s) == {s[k] : k \in DOMAIN s}

RECURSIVE SumSeq(_)
SumSeq(s) == IF s = <<>> THEN 0 ELSE Head(s) + SumSeq(Tail(s))

\* The element of a one-element set.  The({e(v) : v \in {x}}) is e of the
\* value of x, x being evaluated once, as a statement runs once and leaves
\* its result to the statements after it.
The(S) == CHOOSE y \in S : TRUE

RemoveAt(s, i) == SubSeq(s, 1, i - 1) \o SubSeq(s, i + 1, Len(s))

\* ------------------------------------------------------------------- colors
\* Core/Color: four components.  Color.WHITE and two other colors.
WHITE == <<255, 255, 255, 255>>
RED == <<255, 0, 0, 255>>
BLUE == <<0, 0, 255, 255>>
Colors == {WHITE, RED, BLUE}

\* Color.equals: component-wise equality.
ColorEquals(a, b) == \A k \in 1..4 : a[k] = b[k]

\* Color.prototype.toRgba: the components packed into one unsigned 32-bit
\* number, red in the lowest byte.  The number is kept as its four base-256
\* digits, most significant first, so that it stays inside TLC's integers.
toRgba(c) == <<c[4], c[3], c[2], c[1]>>

\* a < b for two packed numbers (digit sequences of equal length).
RgbaLess(a, b) ==
    \E k \in 1..4 : a[k] < b[k] /\ \A m \in 1..(k - 1) : a[m] = b[m]

\* ------------------------------------------------------ construction inputs
\* options.batchIds: the id of the mesh at each table index; four meshes
\* A, B, C, D.
batchIds == <<101, 102, 103, 104>>

NumMeshes == Len(batchIds)

MeshIndexes == 1..NumMeshes

\* An id no mesh has.
UnknownBatchId == 7

\* options.indexCounts: three indices per triangle, one or two triangles.
InitIndexCounts == [i \in MeshIndexes |-> 3 * (1 + (i % 2))]

\* options.indexOffsets: mesh n starts where mesh n - 1 ends.
InitIndexOffsets ==
    [i \in MeshIndexes |-> SumSeq(SubSeq(InitIndexCounts, 1, i - 1))]

TotalIndexCount == SumSeq(InitIndexCounts)

\* The k-th index value of the mesh at table index i, as constructed.
OriginalIndex(i, k) == 10 * i + k

OriginalIndices(i) == [k \in 1..InitIndexCounts[i] |-> OriginalIndex(i, k)]

RECURSIVE ConcatMeshes(_)
ConcatMeshes(i) ==
    IF i = 0 THEN <<>> ELSE ConcatMeshes(i - 1) \o OriginalIndices(i)

\* options.indices: a typed array of length TotalIndexCount that views its
\* ArrayBuffer from element `pad` on; the elements before the view are 0.
InitIndices(pad) ==
    [buffer |-> [k \in 1..pad |-> 0] \o ConcatMeshes(NumMeshes),
     byteOffset |-> pad,
     length |-> TotalIndexCount]

\* The elements of a typed array, read through the view.
ArrayView(a) == SubSeq(a.buffer, a.byteOffset + 1, a.byteOffset + a.length)

\* new Vector3DTileBatch({color, offset, count, batchIds})
Vector3DTileBatch(color, offset, count, ids) ==
    [color |-> color, offset |-> offset, count |-> count, batchIds |-> ids]

\* options.batchedIndices: one red batch holding every mesh, or two batches
\* (of one color, or of two) that split the meshes after the first one.
InitBatchedIndices ==
    { <<Vector3DTileBatch(RED, 0, TotalIndexCount, batchIds)>> }
    \cup
    { <<Vector3DTileBatch(RED, 0, InitIndexCounts[1], SubSeq(batchIds, 1, 1)),
        Vector3DTileBatch(c, InitIndexCounts[1],
                          TotalIndexCount - InitIndexCounts[1],
                          SubSeq(batchIds, 2, NumMeshes))>> : c \in {RED, BLUE} }

\* this._batchIdLookUp: batch id -> table index, filled by the constructor.
batchIdLookUp ==
    [id \in Range(batchIds) |-> CHOOSE i \in MeshIndexes : batchIds[i] = id]

\* The GPU resources the primitive creates and owns: the vertex array
\* objects (1 is the one created first, 2 the WebGL 2 swap partner) and the
\* three shader programs.
GpuResources == {"va1", "va2", "sp", "spStencil", "spPick"}

\* Everything the resource setup creates.
ResourceNames ==
    GpuResources \cup {"renderStates", "uniformMap", "rsWireframe"}

\* The name of vertex array object v in the ledgers.
VaName(v) == IF v = 1 THEN "va1" ELSE "va2"

\* -------------------------------------------------------------------- state
VARIABLES
    webgl2,                 \* context.webgl2
    indices,                \* this._indices
    indexCounts,            \* this._indexCounts
    indexOffsets,           \* this._indexOffsets
    batchedIndices,         \* this._batchedIndices
    va,                     \* this._va: 0 = undefined, else the vertex array
    vaSwap,                 \* this._vaSwap
    indexBuffer,            \* contents of each vertex array's index buffer
    sp,                     \* this._sp, _spStencil, _spPick created
    commands,               \* this._commands
    commandsIgnoreShow,     \* this._commandsIgnoreShow
    pickCommands,           \* this._pickCommands
    batchDirty,             \* this._batchDirty
    pickCommandsDirty,      \* this._pickCommandsDirty
    commandsDirty,          \* this._commandsDirty
    framesSinceLastRebatch, \* this._framesSinceLastRebatch
    updatingAllCommands,    \* this._updatingAllCommands
    debugWireframe,         \* this.debugWireframe
    _debugWireframe,        \* this._debugWireframe
    forceRebatch,           \* this.forceRebatch
    features,               \* the feature records of createFeatures
    renderStates,           \* this._rsStencilPreloadPass .. _rsPickPass created
    _uniformMap,            \* this._uniformMap created
    rsWireframe,            \* this._rsWireframe created
    created,                \* how often each resource has been created
    released,               \* how often each GPU resource has been released
    shaderSourceCalls,      \* calls of the batch table's shader-source transforms
    rebuilt,                \* the command sets the last update rebuilt
    destroyed,              \* destroy() has been called
    commandList,            \* frameState.commandList of the last update
    lastOp,                 \* the last public operation and what it did
    edits                   \* number of update-commands / apply-style calls

vars == <<webgl2, indices, indexCounts, indexOffsets, batchedIndices, va,
          vaSwap, indexBuffer, sp, commands, commandsIgnoreShow, pickCommands,
          batchDirty, pickCommandsDirty, commandsDirty, framesSinceLastRebatch,
          updatingAllCommands, debugWireframe, _debugWireframe, forceRebatch,
          features, renderStates, _uniformMap, rsWireframe, created, released,
          shaderSourceCalls, rebuilt, destroyed, commandList, lastOp, edits>>

\* The primitive's fields as one record, threaded through the functions.
Prim ==
    [indices |-> indices, indexCounts |-> indexCounts,
     indexOffsets |-> indexOffsets, batchedIndices |-> batchedIndices,
     va |-> va, vaSwap |-> vaSwap, indexBuffer |-> indexBuffer, sp |-> sp,
     commands |-> commands, commandsIgnoreShow |-> commandsIgnoreShow,
     pickCommands |-> pickCommands, batchDirty |-> batchDirty,
     pickCommandsDirty |-> pickCommandsDirty, commandsDirty |-> commandsDirty,
     framesSinceLastRebatch |-> framesSinceLastRebatch,
     updatingAllCommands |-> updatingAllCommands,
     debugWireframe |-> debugWireframe, _debugWireframe |-> _debugWireframe,
     forceRebatch |-> forceRebatch, features |-> features,
     renderStates |-> renderStates, _uniformMap |-> _uniformMap,
     rsWireframe |-> rsWireframe, created |-> created, released |-> released,
     shaderSourceCalls |-> shaderSourceCalls, rebuilt |-> rebuilt,
     destroyed |-> destroyed]

SetPrimInit(p) ==
    /\ indices = p.indices
    /\ indexCounts = p.indexCounts
    /\ indexOffsets = p.indexOffsets
    /\ batchedIndices = p.batchedIndices
    /\ va = p.va
    /\ vaSwap = p.vaSwap
    /\ indexBuffer = p.indexBuffer
    /\ sp = p.sp
    /\ commands = p.commands
    /\ commandsIgnoreShow = p.commandsIgnoreShow
    /\ pickCommands = p.pickCommands
    /\ batchDirty = p.batchDirty
    /\ pickCommandsDirty = p.pickCommandsDirty
    /\ commandsDirty = p.commandsDirty
    /\ framesSinceLastRebatch = p.framesSinceLastRebatch
    /\ updatingAllCommands = p.updatingAllCommands
    /\ debugWireframe = p.debugWireframe
    /\ _debugWireframe = p._debugWireframe
    /\ forceRebatch = p.forceRebatch
    /\ features = p.features
    /\ renderStates = p.renderStates
    /\ _uniformMap = p._uniformMap
    /\ rsWireframe = p.rsWireframe
    /\ created = p.created
    /\ released = p.released
    /\ shaderSourceCalls = p.shaderSourceCalls
    /\ rebuilt = p.rebuilt
    /\ destroyed = p.destroyed

SetPrim(p) ==
    /\ indices' = p.indices
    /\ indexCounts' = p.indexCounts
    /\ indexOffsets' = p.indexOffsets
    /\ batchedIndices' = p.batchedIndices
    /\ va' = p.va
    /\ vaSwap' = p.vaSwap
    /\ indexBuffer' = p.indexBuffer
    /\ sp' = p.sp
    /\ commands' = p.commands
    /\ commandsIgnoreShow' = p.commandsIgnoreShow
    /\ pickCommands' = p.pickCommands
    /\ batchDirty' = p.batchDirty
    /\ pickCommandsDirty' = p.pickCommandsDirty
    /\ commandsDirty' = p.commandsDirty
    /\ framesSinceLastRebatch' = p.framesSinceLastRebatch
    /\ updatingAllCommands' = p.updatingAllCommands
    /\ debugWireframe' = p.debugWireframe
    /\ _debugWireframe' = p._debugWireframe
    /\ forceRebatch' = p.forceRebatch
    /\ features' = p.features
    /\ renderStates' = p.renderStates
    /\ _uniformMap' = p._uniformMap
    /\ rsWireframe' = p.rsWireframe
    /\ created' = p.created
    /\ released' = p.released
    /\ shaderSourceCalls' = p.shaderSourceCalls
    /\ rebuilt' = p.rebuilt
    /\ destroyed' = p.destroyed

\* new Cesium3DTileFeature: shown, white.
DefaultFeature == [show |-> TRUE, color |-> WHITE]

\* The constructor.
Vector3DTilePrimitive(pad, batches) ==
    [indices |-> InitIndices(pad), indexCounts |-> InitIndexCounts,
     indexOffsets |-> InitIndexOffsets, batchedIndices |-> batches,
     va |-> 0, vaSwap |-> 0, indexBuffer |-> <<<<>>, <<>>>>, sp |-> FALSE,
     commands |-> <<>>, commandsIgnoreShow |-> <<>>, pickCommands |-> <<>>,
     batchDirty |-> TRUE, pickCommandsDirty |-> TRUE, commandsDirty |-> FALSE,
     framesSinceLastRebatch |-> 0, updatingAllCommands |-> FALSE,
     debugWireframe |-> FALSE, _debugWireframe |-> FALSE,
     forceRebatch |-> FALSE,
     features |-> [i \in MeshIndexes |-> DefaultFeature],
     renderStates |-> FALSE, _uniformMap |-> FALSE, rsWireframe |-> FALSE,
     created |-> [n \in ResourceNames |-> 0],
     released |-> [n \in GpuResources |-> 0],
     shaderSourceCalls |-> 0, rebuilt |-> {}, destroyed |-> FALSE]

\* ------------------------------------------------------------ update-commands
\* A slip in the count of the trailing batch: the batch's offset left out.
trailingCountNoOffset(batch, offset, count) == batch.count - (offset + count)

\* The count of the trailing batch updateCommands pushes for the members
\* stored after the edited mesh.
trailingCount(batch, offset, count) ==
    batch.offset + batch.count - (offset + count)

\* The early returns with the test of the suppression flag left out.
updateCommandsReturnsUnknown(p, batchId) == batchId \notin DOMAIN batchIdLookUp

\* The early returns of updateCommands: the suppression flag is set, or the
\* batch id is not in the look-up.
updateCommandsReturns(p, batchId) ==
    p.updatingAllCommands \/ batchId \notin DOMAIN batchIdLookUp

\* The end of updateCommands with the dirty flag set only when the batches
\* came out different.
storeBatchesIfChanged(p, batches) ==
    [p EXCEPT !.batchedIndices = batches,
              !.batchDirty = @ \/ batches # p.batchedIndices]

\* The end of updateCommands: the batches as edited, the primitive dirty.
storeBatches(p, batches) ==
    [p EXCEPT !.batchedIndices = batches, !.batchDirty = TRUE]

\* Vector3DTilePrimitive.prototype.updateCommands(batchId, color)
updateCommands(p, batchId, color) ==
    IF updateCommandsReturns(p, batchId) THEN p
    ELSE
      LET index == batchIdLookUp[batchId]
          offset == p.indexOffsets[index]
          count == p.indexCounts[index]
          old == p.batchedIndices
          length == Len(old)
          found == {k \in 1..length :
                       /\ offset >= old[k].offset
                       /\ offset < old[k].offset + old[k].count}
          \* the loop leaves i at the first batch holding offset, or at length
          i == IF found = {} THEN length + 1 ELSE Min(found)
          pushed == Append(old, Vector3DTileBatch(color, offset, count, <<batchId>>))
          batch == pushed[i]
          IsStart(id) == id # batchId /\ p.indexOffsets[batchIdLookUp[id]] < offset
          IsEnd(id) == id # batchId /\ ~(p.indexOffsets[batchIdLookUp[id]] < offset)
          startIds == SelectSeq(batch.batchIds, IsStart)
          endIds == SelectSeq(batch.batchIds, IsEnd)
          withEnd ==
              IF Len(endIds) # 0
              THEN Append(pushed,
                          Vector3DTileBatch(batch.color, offset + count,
                              trailingCount(batch, offset, count), endIds))
              ELSE pushed
          result ==
              IF Len(startIds) # 0
              THEN [withEnd EXCEPT ![i].count = offset - batch.offset,
                                   ![i].batchIds = startIds]
              ELSE RemoveAt(withEnd, i)
      IN storeBatches(p, result)

\* ------------------------------------------------------------------ rebatch
\* Writes src[1..Len(src)] into dst from element offset `at` on.
SetArray(dst, src, at) ==
    [k \in 1..Len(dst) |->
        IF k > at /\ k <= at + Len(src) THEN src[k - at] ELSE dst[k]]

\* copyIndicesCPU: state c = [newIndices, offsets, currentOffset].
\* new indices.constructor(indices.buffer, sizeInBytes * offset, count) reads
\* `count` elements of the underlying buffer from element `offset` on.
RECURSIVE copyIndicesCPU(_, _, _, _, _)
copyIndicesCPU(ind, c, counts, ids, j) ==
    IF j > Len(ids) THEN c
    ELSE
      LET index == batchIdLookUp[ids[j]]
          offset == c.offsets[index]
          count == counts[index]
          subarray == SubSeq(ind.buffer, offset + 1, offset + count)
      IN The({copyIndicesCPU(ind, next, counts, ids, j + 1) :
              next \in {[newIndices |->
                             SetArray(c.newIndices, subarray, c.currentOffset),
                         offsets |-> [c.offsets EXCEPT ![index] = c.currentOffset],
                         currentOffset |-> c.currentOffset + count]}})

\* copyIndicesGPU: the same loop with writeBuffer.copyFromBuffer(readBuffer,
\* offset * sizeInBytes, currentOffset * sizeInBytes, count * sizeInBytes);
\* c.newIndices is the contents of writeBuffer.
RECURSIVE copyIndicesGPU(_, _, _, _, _)
copyIndicesGPU(readBuffer, c, counts, ids, j) ==
    IF j > Len(ids) THEN c
    ELSE
      LET index == batchIdLookUp[ids[j]]
          offset == c.offsets[index]
          count == counts[index]
          bytes == SubSeq(readBuffer, offset + 1, offset + count)
      IN The({copyIndicesGPU(readBuffer, next, counts, ids, j + 1) :
              next \in {[newIndices |->
                             SetArray(c.newIndices, bytes, c.currentOffset),
                         offsets |-> [c.offsets EXCEPT ![index] = c.currentOffset],
                         currentOffset |-> c.currentOffset + count]}})

\* One of the two copy primitives, by mode.
copyIndices(gpuMode, source, c, counts, ids) ==
    IF gpuMode THEN copyIndicesGPU(source, c, counts, ids, 1)
    ELSE copyIndicesCPU(source, c, counts, ids, 1)

\* Whether the batch popped next is folded into the current one.
SameColor(next, current) == ColorEquals(next.color, current.color)

\* The while loop shared by rebatchCPU and rebatchGPU.  r = [rest, done,
\* current, copy]: the batches not popped yet, the finished batches, the
\* batch being grown (the last element of newBatchedIndices) and the copy
\* state.
\* One pass of the loop body: `next` was popped and `copy` is the copy state
\* after its meshes were copied.
rebatchStep(r, next, copy) ==
    IF SameColor(next, r.current)
    THEN [rest |-> SubSeq(r.rest, 1, Len(r.rest) - 1), done |-> r.done,
          current |-> [r.current EXCEPT
              !.batchIds = r.current.batchIds \o next.batchIds,
              !.count = copy.currentOffset - r.current.offset],
          copy |-> copy]
    ELSE [rest |-> SubSeq(r.rest, 1, Len(r.rest) - 1),
          done |-> Append(r.done, r.current),
          current |-> [next EXCEPT
              !.offset = r.copy.currentOffset,
              !.count = copy.currentOffset - r.copy.currentOffset],
          copy |-> copy]

RECURSIVE rebatchLoop(_, _, _, _)
rebatchLoop(gpuMode, source, counts, r) ==
    IF Len(r.rest) = 0 THEN r
    ELSE The({The({rebatchLoop(gpuMode, source, counts, s) :
                       s \in {rebatchStep(r, r.rest[Len(r.rest)], copy)}}) :
              copy \in {copyIndices(gpuMode, source, r.copy, counts,
                                    r.rest[Len(r.rest)].batchIds)}})

\* The state the loop starts in: the first batch popped, at offset 0, and
\* `copy0` the copy state after its meshes were copied.
rebatchFirst(sorted, copy0) ==
    [rest |-> SubSeq(sorted, 1, Len(sorted) - 1), done |-> <<>>,
     current |-> [sorted[Len(sorted)] EXCEPT
         !.offset = 0, !.count = copy0.currentOffset],
     copy |-> copy0]

\* The part of rebatchCPU / rebatchGPU before the buffers are committed.
rebatchRun(gpuMode, source, target, offsets, counts, sorted) ==
    The({The({rebatchLoop(gpuMode, source, counts, r) :
                  r \in {rebatchFirst(sorted, copy0)}}) :
         copy0 \in {copyIndices(gpuMode, source,
                        [newIndices |-> target, offsets |-> offsets,
                         currentOffset |-> 0],
                        counts, sorted[Len(sorted)].batchIds)}})

\* The end of rebatchCPU: the buffer, the array and the tables committed.
commitCPU(p, r) ==
    [p EXCEPT
       !.indexOffsets = r.copy.offsets,
       !.indexBuffer[p.va] = r.copy.newIndices,
       !.indices = [buffer |-> r.copy.newIndices, byteOffset |-> 0,
                    length |-> p.indices.length],
       !.batchedIndices = Append(r.done, r.current)]

\* rebatchCPU(primitive, batchedIndices)
rebatchCPU(p, sorted) ==
    The({commitCPU(p, r) :
         r \in {rebatchRun(FALSE, p.indices, [k \in 1..p.indices.length |-> 0],
                           p.indexOffsets, p.indexCounts, sorted)}})

\* The end of rebatchGPU with the exchange of the vertex arrays left out.
commitGPUNoSwap(p, r) ==
    [p EXCEPT
       !.indexOffsets = r.copy.offsets,
       !.indexBuffer[p.vaSwap] = r.copy.newIndices,
       !.batchedIndices = Append(r.done, r.current)]

\* The end of rebatchGPU: the vertex arrays swapped, the tables committed.
commitGPU(p, r) ==
    [p EXCEPT
       !.indexOffsets = r.copy.offsets,
       !.indexBuffer[p.vaSwap] = r.copy.newIndices,
       !.va = p.vaSwap,
       !.vaSwap = p.va,
       !.batchedIndices = Append(r.done, r.current)]

\* rebatchGPU(primitive, batchedIndices)
rebatchGPU(p, sorted) ==
    The({commitGPU(p, r) :
         r \in {rebatchRun(TRUE, p.indexBuffer[p.va], p.indexBuffer[p.vaSwap],
                           p.indexOffsets, p.indexCounts, sorted)}})

\* compareColors(a, b) < 0: a sorts before b (descending packed color).
compareColors(a, b) == RgbaLess(toRgba(b.color), toRgba(a.color))

\* batchedIndices.sort(compareColors): a stable sort, by insertion.
RECURSIVE InsertSorted(_, _)
InsertSorted(s, x) ==
    IF s = <<>> THEN <<x>>
    ELSE IF compareColors(x, s[Len(s)])
         THEN The({Append(InsertSorted(front, x), s[Len(s)]) :
                   front \in {SubSeq(s, 1, Len(s) - 1)}})
         ELSE Append(s, x)

\* The sort left out: the batches are popped in the order they are in.
SortBatchesSkipped(s) == s

RECURSIVE SortBatches(_)
SortBatches(s) ==
    IF s = <<>> THEN <<>>
    ELSE The({The({InsertSorted(t, s[Len(s)]) : t \in {SortBatches(front)}}) :
              front \in {SubSeq(s, 1, Len(s) - 1)}})

\* The scan that also compares a batch with itself.
needToRebatchSelf(batches) ==
    \E i, j \in 1..Len(batches) :
        i <= j /\ toRgba(batches[i].color) = toRgba(batches[j].color)

\* The scan of rebatchCommands: some packed color occurs twice.
needToRebatch(batches) ==
    \E i, j \in 1..Len(batches) :
        i < j /\ toRgba(batches[i].color) = toRgba(batches[j].color)

\* The throttle with the cap compared one frame early.
deferRebatchOneEarly(p) ==
    ~p.forceRebatch /\ p.framesSinceLastRebatch + 1 < RebatchFrames

\* The throttle with the force flag left out.
deferRebatchUnforced(p) == p.framesSinceLastRebatch < RebatchFrames

\* The throttle that still defers at the cap.
deferRebatchAtCap(p) ==
    ~p.forceRebatch /\ p.framesSinceLastRebatch <= RebatchFrames

\* The throttle of rebatchCommands: defer this frame.
deferRebatch(p) ==
    ~p.forceRebatch /\ p.framesSinceLastRebatch < RebatchFrames

\* The end of rebatchCommands with the staleness counter left as it is.
finishRebatchKeepCounter(q) ==
    [q EXCEPT !.batchDirty = FALSE, !.pickCommandsDirty = TRUE]

\* The end of rebatchCommands after rebatchCPU / rebatchGPU left q.
finishRebatch(q) ==
    [q EXCEPT !.framesSinceLastRebatch = 0,
              !.batchDirty = FALSE,
              !.pickCommandsDirty = TRUE]

\* rebatchCommands(primitive, context): [p, ret], ret being the value
\* returned: "false", "undefined" (deferred) or "true" (rebatched).
rebatchCommands(p, isWebgl2) ==
    IF ~p.batchDirty THEN [p |-> p, ret |-> "false"]
    ELSE IF ~needToRebatch(p.batchedIndices)
    THEN [p |-> [p EXCEPT !.batchDirty = FALSE], ret |-> "false"]
    ELSE IF deferRebatch(p)
    THEN [p |-> [p EXCEPT !.framesSinceLastRebatch = @ + 1], ret |-> "undefined"]
    ELSE
      The({[p |-> finishRebatch(IF isWebgl2 THEN rebatchGPU(p, sorted)
                                ELSE rebatchCPU(p, sorted)),
            ret |-> "true"] :
           sorted \in {SortBatches(p.batchedIndices)}})

\* ----------------------------------------------------------- draw commands
\* new DrawCommand({owner}) with the fields the builders assign.
DrawCommand(vertexArray, offset, count, renderState, shaderProgram, uniformMap, boundingVolume, pass, primitiveType) ==
    [vertexArray |-> vertexArray, offset |-> offset, count |-> count,
     renderState |-> renderState, shaderProgram |-> shaderProgram,
     uniformMap |-> uniformMap, boundingVolume |-> boundingVolume,
     pass |-> pass, primitiveType |-> primitiveType]

\* A command object found at index k is reused and keeps its primitiveType;
\* a missing one is constructed with the default, TRIANGLES.
ReusedType(old, k) ==
    IF k <= Len(old) THEN old[k].primitiveType ELSE "TRIANGLES"

\* The render state createColorCommands assigns to the commands of a triple.
colorRenderStates == <<"rsStencilPreloadPass", "rsStencilDepthPass", "rsColorPass">>

\* The number of commands createColorCommands keeps for `length` batches.
colorCommandsLength(length) == length * 3

\* The loop of createColorCommands: three commands per batch.
buildColorCommands(p) ==
    [k \in 1..colorCommandsLength(Len(p.batchedIndices)) |->
        LET j == ((k - 1) \div 3) + 1
            slot == ((k - 1) % 3) + 1
        IN DrawCommand(p.va, p.batchedIndices[j].offset,
                       p.batchedIndices[j].count, colorRenderStates[slot],
                       "sp", "uniformMap", "boundingVolume",
                       "CESIUM_3D_TILE_CLASSIFICATION",
                       ReusedType(p.commands, k))]

\* The rebuild that forgets to mark the ignore-show commands.
rebuildColorCommandsUnmarked(rb) ==
    IF rb.ret # "true" /\ Len(rb.p.commands) = 3 * Len(rb.p.batchedIndices)
    THEN rb
    ELSE [p |-> [rb.p EXCEPT !.commands = buildColorCommands(rb.p),
                             !.rebuilt = @ \cup {"color"}],
          ret |-> rb.ret]

\* The rebuild that looks at the value rebatchCommands returned only.
rebuildColorCommandsAfterRebatch(rb) ==
    IF rb.ret # "true"
    THEN rb
    ELSE [p |-> [rb.p EXCEPT !.commands = buildColorCommands(rb.p),
                             !.commandsDirty = TRUE,
                             !.rebuilt = @ \cup {"color"}],
          ret |-> rb.ret]

\* createColorCommands after its call of rebatchCommands, rb being what the
\* call left and returned: the early return, or the commands rebuilt.
rebuildColorCommands(rb) ==
    IF rb.ret # "true" /\ Len(rb.p.commands) = 3 * Len(rb.p.batchedIndices)
    THEN rb
    ELSE [p |-> [rb.p EXCEPT !.commands = buildColorCommands(rb.p),
                             !.commandsDirty = TRUE,
                             !.rebuilt = @ \cup {"color"}],
          ret |-> rb.ret]

\* createColorCommands(primitive, context): [p, ret], ret being what
\* rebatchCommands returned.
createColorCommands(p, isWebgl2) ==
    The({rebuildColorCommands(rb) : rb \in {rebatchCommands(p, isWebgl2)}})

\* The clone left with the shader program of the command it copies.
IgnoreShowCloneKeepProgram(command) ==
    [command EXCEPT !.pass = "CESIUM_3D_TILE_CLASSIFICATION_IGNORE_SHOW"]

\* DrawCommand.shallowClone followed by the two assignments of
\* createColorCommandsIgnoreShow.
IgnoreShowClone(command) ==
    [command EXCEPT !.shaderProgram = "spStencil",
                    !.pass = "CESIUM_3D_TILE_CLASSIFICATION_IGNORE_SHOW"]

\* createColorCommandsIgnoreShow(primitive, frameState)
createColorCommandsIgnoreShow(p, frame) ==
    IF ~frame.invertClassification \/ ~p.commandsDirty THEN p
    ELSE
      LET length == (Len(p.commands) \div 3) * 2
      IN [p EXCEPT
            !.commandsIgnoreShow =
                [j \in 1..length |->
                    IgnoreShowClone(p.commands[3 * ((j - 1) \div 2) + ((j - 1) % 2) + 1])],
            !.commandsDirty = FALSE,
            !.rebuilt = @ \cup {"ignoreShow"}]

\* The render state and shader program of the commands of a pick triple.
pickRenderStates == <<"rsStencilPreloadPass", "rsStencilDepthPass", "rsPickPass">>
pickShaderPrograms == <<"spStencil", "spStencil", "spPick">>

\* Pick triples built per batch instead of per mesh.
pickLengthPerBatch(p) == Len(p.batchedIndices)

\* The number of triples createPickCommands builds.
pickLength(p) == Len(p.indexOffsets)

\* The pick commands built once and never again: the dirty flag ignored.
createPickCommandsOnce(p) ==
    IF Len(p.pickCommands) # 0 THEN p
    ELSE
      [p EXCEPT
         !.pickCommands =
             [k \in 1..(pickLength(p) * 3) |->
                 LET j == ((k - 1) \div 3) + 1
                     slot == ((k - 1) % 3) + 1
                 IN DrawCommand(p.va, p.indexOffsets[j], p.indexCounts[j],
                                pickRenderStates[slot], pickShaderPrograms[slot],
                                "pickUniformMap", j,
                                "CESIUM_3D_TILE_CLASSIFICATION",
                                ReusedType(p.pickCommands, k))],
         !.pickCommandsDirty = FALSE,
         !.rebuilt = @ \cup {"pick"}]

\* createPickCommands(primitive)
createPickCommands(p) ==
    IF ~p.pickCommandsDirty THEN p
    ELSE
      [p EXCEPT
         !.pickCommands =
             [k \in 1..(pickLength(p) * 3) |->
                 LET j == ((k - 1) \div 3) + 1
                     slot == ((k - 1) % 3) + 1
                 IN DrawCommand(p.va, p.indexOffsets[j], p.indexCounts[j],
                                pickRenderStates[slot], pickShaderPrograms[slot],
                                "pickUniformMap", j,
                                "CESIUM_3D_TILE_CLASSIFICATION",
                                ReusedType(p.pickCommands, k))],
         !.pickCommandsDirty = FALSE,
         !.rebuilt = @ \cup {"pick"}]

\* updateWireframe(primitive)
updateWireframe(p) ==
    IF p.debugWireframe = p._debugWireframe THEN p
    ELSE
      LET rs == IF p.debugWireframe THEN "rsWireframe" ELSE "rsColorPass"
          type == IF p.debugWireframe THEN "LINES" ELSE "TRIANGLES"
      IN [p EXCEPT
            !.commands =
                [k \in 1..Len(p.commands) |->
                    IF k % 3 = 0
                    THEN [p.commands[k] EXCEPT !.renderState = rs,
                                               !.primitiveType = type]
                    ELSE p.commands[k]],
            !.rsWireframe = TRUE,
            !.created["rsWireframe"] = IF p.rsWireframe THEN @ ELSE @ + 1,
            !._debugWireframe = p.debugWireframe]

\* frameState.commandList holds references to the command objects: entry
\* [list, index] is the command at `index` of this._commands ("commands"),
\* this._commandsIgnoreShow ("commandsIgnoreShow") or this._pickCommands
\* ("pickCommands").
CommandRefs(name, cmds) == [k \in 1..Len(cmds) |-> [list |-> name, index |-> k]]

\* The ignore-show commands pushed before the commands.
queueCommandsIgnoreShowFirst(list, frame, cmds, cmdsIgnoreShow) ==
    IF ~frame.invertClassification
    THEN list \o CommandRefs("commands", cmds)
    ELSE list \o CommandRefs("commandsIgnoreShow", cmdsIgnoreShow)
              \o CommandRefs("commands", cmds)

\* queueCommands(frameState, commands, commandsIgnoreShow) for the color
\* commands.
queueCommands(list, frame, cmds, cmdsIgnoreShow) ==
    IF ~frame.invertClassification
    THEN list \o CommandRefs("commands", cmds)
    ELSE list \o CommandRefs("commands", cmds)
              \o CommandRefs("commandsIgnoreShow", cmdsIgnoreShow)

\* queueCommands(frameState, this._pickCommands): no third argument.
queuePickCommands(list, cmds) == list \o CommandRefs("pickCommands", cmds)

\* queueWireframeCommands(frameState, commands)
queueWireframeCommands(list, cmds) ==
    list \o [m \in 1..(Len(cmds) \div 3) |-> [list |-> "commands", index |-> 3 * m]]

\* ----------------------------------------------------------------- resources
\* createVertexArray(primitive, context): the index buffer is created from
\* the typed array; with WebGL 2 a second one of the same size, zero-filled.
createVertexArray(p, isWebgl2) ==
    IF p.va # 0 THEN p
    ELSE [p EXCEPT
            !.va = 1,
            !.vaSwap = IF isWebgl2 THEN 2 ELSE 0,
            !.created["va1"] = @ + 1,
            !.created["va2"] = IF isWebgl2 THEN @ + 1 ELSE @,
            !.indexBuffer =
                <<ArrayView(p.indices),
                  IF isWebgl2 THEN [k \in 1..p.indices.length |-> 0] ELSE <<>>>>]

\* The batch table's shader-source transforms createShaders calls:
\* getVertexShaderCallback, getFragmentShaderCallback,
\* getPickVertexShaderCallbackIgnoreShow, getPickFragmentShaderCallbackIgnoreShow.
ShaderCallbacks == {"vs", "fs", "pickVS", "pickFS"}

\* createShaders without its early return.
createShadersUnguarded(p) ==
    [p EXCEPT !.sp = TRUE,
              !.created["sp"] = @ + 1,
              !.created["spStencil"] = @ + 1,
              !.created["spPick"] = @ + 1,
              !.shaderSourceCalls = @ + Cardinality(ShaderCallbacks)]

\* createShaders(primitive, context)
createShaders(p) ==
    IF p.sp THEN p
    ELSE [p EXCEPT !.sp = TRUE,
                   !.created["sp"] = @ + 1,
                   !.created["spStencil"] = @ + 1,
                   !.created["spPick"] = @ + 1,
                   !.shaderSourceCalls = @ + Cardinality(ShaderCallbacks)]

\* createRenderStates(primitive)
createRenderStates(p) ==
    IF p.renderStates THEN p
    ELSE [p EXCEPT !.renderStates = TRUE, !.created["renderStates"] = @ + 1]

\* createUniformMap(primitive, context)
createUniformMap(p) ==
    IF p._uniformMap THEN p
    ELSE [p EXCEPT !._uniformMap = TRUE, !.created["uniformMap"] = @ + 1]

\* ------------------------------------------------------------------- update
\* The frame states handed to update: which passes are active.
Frames ==
    [render : BOOLEAN, pick : BOOLEAN, invertClassification : BOOLEAN]

\* The end of the render-pass part: the color commands queued, or the
\* wireframe ones.
queueRender(q, ret, frame) ==
    [p |-> q, ret |-> ret,
     commandList |->
         IF q._debugWireframe
         THEN queueWireframeCommands(<<>>, q.commands)
         ELSE queueCommands(<<>>, frame, q.commands, q.commandsIgnoreShow)]

\* The render-pass part after createColorCommands left and returned cc.
renderAfterColor(cc, frame) ==
    The({The({queueRender(q, cc.ret, frame) : q \in {updateWireframe(q0)}}) :
         q0 \in {createColorCommandsIgnoreShow(cc.p, frame)}})

\* The render-pass part of update.
updateRender(p, frame, isWebgl2) ==
    The({renderAfterColor(cc, frame) : cc \in {createColorCommands(p, isWebgl2)}})

\* The end of the pick-pass part: the pick commands of q queued after what
\* the render-pass part r queued.
queuePick(q, r) ==
    [p |-> q, ret |-> r.ret,
     commandList |-> queuePickCommands(r.commandList, q.pickCommands)]

\* The pick-pass part of update, r being what the render-pass part left.
updatePick(r, frame) ==
    IF frame.pick THEN queuePick(createPickCommands(r.p), r) ELSE r

\* update with the render-pass part run whatever the passes are.
updatePassesAlwaysRender(p0, frame, isWebgl2) ==
    The({updatePick(r, frame) : r \in {updateRender(p0, frame, isWebgl2)}})

\* update once the vertex array and the shaders exist (p0).
updatePasses(p0, frame, isWebgl2) ==
    The({updatePick(r, frame) :
         r \in {IF frame.render
                THEN updateRender(p0, frame, isWebgl2)
                ELSE [p |-> p0, ret |-> "none", commandList |-> <<>>]}})

\* Vector3DTilePrimitive.prototype.update(frameState): [p, ret, commandList],
\* ret being what rebatchCommands returned ("none" when it was not called).
update(p, frame, isWebgl2) ==
    The({updatePasses(p0, frame, isWebgl2) :
         p0 \in {createUniformMap(createRenderStates(createShaders(
                    createVertexArray([p EXCEPT !.rebuilt = {}], isWebgl2))))}})

\* ------------------------------------------------------------------ destroy
\* The resources destroy() calls destroy() on: _va, _sp, _spPick and
\* _vaSwap, each when it is defined.
destroyedResources(p) ==
    (IF p.va # 0 THEN {VaName(p.va)} ELSE {})
    \cup (IF p.sp THEN {"sp", "spPick"} ELSE {})
    \cup (IF p.vaSwap # 0 THEN {VaName(p.vaSwap)} ELSE {})

\* Vector3DTilePrimitive.prototype.destroy(): each field is replaced by what
\* its destroy() returns, undefined, and the object is marked destroyed.
destroy(p) ==
    [p EXCEPT
       !.released = [n \in GpuResources |->
                        IF n \in destroyedResources(p)
                        THEN p.released[n] + 1 ELSE p.released[n]],
       !.va = 0, !.vaSwap = 0, !.sp = FALSE,
       !.destroyed = TRUE]

\* -------------------------------------------------------------------- styles
\* Assigning feature.color (Cesium3DTileFeature, through the batch table):
\* a changed color is stored and reported through updateCommands.
setFeatureColor(p, i, color) ==
    IF ColorEquals(p.features[i].color, color) THEN p
    ELSE updateCommands([p EXCEPT !.features[i].color = color], batchIds[i], color)

\* Assigning feature.show.
setFeatureShow(p, i, show) == [p EXCEPT !.features[i].show = show]

\* The batches left with the colors they have.
resetBatchColorsSkipped(batches) == batches

\* Every batch recolored white, as clearStyle and a simple style do.
resetBatchColors(batches) ==
    [k \in 1..Len(batches) |-> [batches[k] EXCEPT !.color = WHITE]]

\* clearStyle(polygons, features)
RECURSIVE clearFeatures(_, _)
clearFeatures(p, i) ==
    IF i > NumMeshes THEN p
    ELSE clearFeatures(setFeatureColor(setFeatureShow(p, i, TRUE), i, WHITE), i + 1)

\* The end of a style with the suppression flag left set.
resetBatchesFlagLeft(q) ==
    [q EXCEPT !.batchedIndices = resetBatchColors(q.batchedIndices),
              !.batchDirty = TRUE]

\* The end of clearStyle and of a simple applyStyle: every batch white, the
\* primitive dirty.
resetBatches(q) ==
    [q EXCEPT !.batchedIndices = resetBatchColors(q.batchedIndices),
              !.updatingAllCommands = FALSE,
              !.batchDirty = TRUE]

clearStyle(p) ==
    resetBatches(clearFeatures([p EXCEPT !.updatingAllCommands = TRUE], 1))

\* The styles applied: a constant color expression (simple), and color
\* expressions over feature variables; `color` and `show` give what the
\* expressions evaluate to for the mesh at each table index.
NoStyle == [kind |-> "none"]
SimpleStyle ==
    [kind |-> "style", simple |-> TRUE,
     color |-> [i \in MeshIndexes |-> RED],
     show |-> [i \in MeshIndexes |-> TRUE]]
ParityStyle ==
    [kind |-> "style", simple |-> FALSE,
     color |-> [i \in MeshIndexes |-> IF i % 2 = 0 THEN BLUE ELSE RED],
     show |-> [i \in MeshIndexes |-> i # 1]]
SecondStyle ==
    [kind |-> "style", simple |-> FALSE,
     color |-> [i \in MeshIndexes |-> IF i = 2 THEN BLUE ELSE WHITE],
     show |-> [i \in MeshIndexes |-> TRUE]]
Styles == {NoStyle, SimpleStyle, ParityStyle, SecondStyle}

\* The loop of applyStyle over the features.
RECURSIVE styleFeatures(_, _, _)
styleFeatures(p, style, i) ==
    IF i > NumMeshes THEN p
    ELSE styleFeatures(
             setFeatureShow(setFeatureColor(p, i, style.color[i]), i, style.show[i]),
             style, i + 1)

\* The end of applyStyle: a simple style recolors the batches.
finishStyle(q, isSimpleStyle) == IF isSimpleStyle THEN resetBatches(q) ELSE q

\* Vector3DTilePrimitive.prototype.applyStyle(frameState, style, features)
applyStyle(p, style) ==
    IF style.kind = "none" THEN clearStyle(p)
    ELSE finishStyle(
             styleFeatures([p EXCEPT !.updatingAllCommands = style.simple], style, 1),
             style.simple)

\* ------------------------------------------------------------------ actions
\* The constructor, on the inputs `batches` and a view that starts `pad`
\* elements into its buffer, for a context with or without WebGL 2 (the
\* offset view is explored where the array is read again: without WebGL 2).
Construct(pads, batchSets) ==
    /\ webgl2 \in BOOLEAN
    /\ \E pad \in pads, batches \in batchSets :
           /\ webgl2 => pad = 0
           /\ SetPrimInit(Vector3DTilePrimitive(pad, batches))
    /\ commandList = <<>>
    /\ lastOp = [op |-> "new"]
    /\ edits = 0

Init == Construct({0, PadLength}, InitBatchedIndices)

\* The arguments update-commands is called with.
EditArgs == (Range(batchIds) \X Colors) \cup {<<UnknownBatchId, RED>>}

\* polygons.updateCommands(batchId, color), at most `limit` edits.
UpdateCommandsWithin(limit) ==
    /\ ~destroyed
    /\ edits < limit
    /\ \E arg \in EditArgs :
          /\ SetPrim(updateCommands(Prim, arg[1], arg[2]))
          /\ lastOp' = [op |-> "updateCommands", batchId |-> arg[1], color |-> arg[2]]
    /\ edits' = edits + 1
    /\ UNCHANGED <<webgl2, commandList>>

UpdateCommands == UpdateCommandsWithin(MaxEdits)

\* polygons.applyStyle(frameState, style, features)
ApplyStyle ==
    /\ ~destroyed
    /\ edits < MaxEdits
    /\ \E style \in Styles :
          /\ SetPrim(applyStyle(Prim, style))
          /\ lastOp' = [op |-> "applyStyle", style |-> style.kind,
                        simple |-> style.kind # "none" /\ style.simple,
                        dirty |-> batchDirty]
    /\ edits' = edits + 1
    /\ UNCHANGED <<webgl2, commandList>>

\* A frame with the render pass alone.
RenderFrame == [render |-> TRUE, pick |-> FALSE, invertClassification |-> FALSE]

\* polygons.update(frameState) for a frame state of `frames`; a frame that
\* would let the staleness counter pass `cap` is not explored.
UpdateWithin(frames, cap) ==
    /\ ~destroyed
    /\ \E frame \in frames :
          \E r \in {update(Prim, frame, webgl2)} :
             /\ r.p.framesSinceLastRebatch <= cap
             /\ SetPrim(r.p)
             /\ commandList' = r.commandList
             /\ lastOp' = [op |-> "update", frame |-> frame, ret |-> r.ret]
    /\ UNCHANGED <<webgl2, edits>>

Update == UpdateWithin({RenderFrame}, MaxDeferred)

\* polygons.forceRebatch = value
SetForceRebatch ==
    /\ ~destroyed
    /\ SetPrim([Prim EXCEPT !.forceRebatch = ~forceRebatch])
    /\ lastOp' = [op |-> "forceRebatch"]
    /\ UNCHANGED <<webgl2, commandList, edits>>

\* The batching engine under render-pass frames, with the deferral of a
\* rebatch followed for MaxDeferred frames.
Next ==
    \/ UpdateCommands
    \/ ApplyStyle
    \/ Update
    \/ SetForceRebatch

Spec == Init /\ [][Next]_vars

\* The throttle followed to its cap: render-pass frames only, one edit.
InitThrottle == Construct({0}, InitBatchedIndices)

UpdateCommandsOnce == UpdateCommandsWithin(1)

UpdateRender == UpdateWithin({RenderFrame}, RebatchFrames)

NextThrottle ==
    \/ UpdateCommandsOnce
    \/ UpdateRender
    \/ SetForceRebatch

SpecThrottle == InitThrottle /\ [][NextThrottle]_vars

\* The command sets under render, pick and inverted-classification frames,
\* with the throttle followed to its cap and one edit.
FullFrame == [render |-> TRUE, pick |-> TRUE, invertClassification |-> TRUE]

PickFrame == [render |-> FALSE, pick |-> TRUE, invertClassification |-> FALSE]

UpdateFrames == UpdateWithin({RenderFrame, FullFrame, PickFrame}, RebatchFrames)

NextFrames ==
    \/ UpdateCommandsOnce
    \/ UpdateFrames

SpecFrames == InitThrottle /\ [][NextFrames]_vars

\* polygons.debugWireframe = value
SetDebugWireframe ==
    /\ ~destroyed
    /\ SetPrim([Prim EXCEPT !.debugWireframe = ~debugWireframe])
    /\ lastOp' = [op |-> "debugWireframe"]
    /\ UNCHANGED <<webgl2, commandList, edits>>

\* polygons.destroy(); a destroyed primitive is not used again (every
\* function but isDestroyed throws).
Destroy ==
    /\ ~destroyed
    /\ SetPrim(destroy(Prim))
    /\ lastOp' = [op |-> "destroy"]
    /\ UNCHANGED <<webgl2, commandList, edits>>

\* The life of a primitive: resource setup on the first update, edits,
\* forced and deferred rebatches, the wireframe toggle, teardown.
UpdateLifecycle == UpdateWithin({RenderFrame, FullFrame, PickFrame}, MaxDeferred)

NextLifecycle ==
    \/ UpdateCommandsOnce
    \/ UpdateLifecycle
    \/ SetForceRebatch
    \/ SetDebugWireframe
    \/ Destroy

SpecLifecycle == InitThrottle /\ [][NextLifecycle]_vars

\* The throttle under a scheduler that keeps rendering frames: update is
\* called every frame.  The counter is followed one past the cap, so that a
\* frame that defers at the cap would show.
UpdateEveryFrame == UpdateWithin({RenderFrame}, RebatchFrames + 1)

NextThrottleFair ==
    \/ UpdateCommandsOnce
    \/ UpdateEveryFrame
    \/ SetForceRebatch

SpecThrottleFair ==
    InitThrottle /\ [][NextThrottleFair]_vars /\ WF_vars(UpdateEveryFrame)

\* Every combination of passes a frame can ask for: the render pass with or
\* without inverted classification, with or without the pick pass, and the
\* pick pass alone; one edit, the force flag, the deferral followed for
\* MaxDeferred frames.
PassFrames == {f \in Frames : f.render \/ f.pick}

UpdateAnyPasses == UpdateWithin(PassFrames, MaxDeferred)

NextPasses ==
    \/ UpdateCommandsOnce
    \/ UpdateAnyPasses
    \/ SetForceRebatch

SpecPasses == InitThrottle /\ [][NextPasses]_vars


\* ==================================================================== claims
\* The ranges of `batches` tile [0, total): inside it, every element in
\* exactly one range, counts summing to total.
RangesPartition(batches, total) ==
    /\ \A k \in 1..Len(batches) :
          /\ batches[k].offset >= 0
          /\ batches[k].count >= 0
          /\ batches[k].offset + batches[k].count <= total
    /\ \A e \in 0..(total - 1) :
          Cardinality({k \in 1..Len(batches) :
                          /\ batches[k].offset <= e
                          /\ e < batches[k].offset + batches[k].count}) = 1
    /\ SumSeq([k \in 1..Len(batches) |-> batches[k].count]) = total

\* The last operation was an update that called rebatchCommands and got
\* `ret` back.
UpdateReturned(op, ret) == op.op = "update" /\ op.ret = ret

\* C1: in every reachable state the (offset, count) ranges of the batches
\* form an exact partition of [0, total index count): no overlap, no gap,
\* counts summing to the total.
C1_BatchesPartitionIndexBuffer == RangesPartition(batchedIndices, indices.length)

\* C1 witness: a mesh is split out of a batch after a rebatch has moved the
\* meshes in the index buffer.
C1_Witness ==
    /\ lastOp.op = "updateCommands"
    /\ indexOffsets # InitIndexOffsets
    /\ Len(batchedIndices) = 3

\* The index buffer that is drawn: the active vertex array's index buffer,
\* and before it is created the typed array it will be created from.
AuthoritativeIndices ==
    IF va = 0 THEN ArrayView(indices) ELSE indexBuffer[va]

\* What the authoritative buffer holds at the recorded range of mesh i.
MeshIndices(i) ==
    SubSeq(AuthoritativeIndices, indexOffsets[i] + 1, indexOffsets[i] + indexCounts[i])

\* C2: for every mesh the authoritative index buffer, read at the mesh's
\* recorded range, holds the mesh's original index values in their original
\* order, and the mesh's count is the one it was constructed with.
C2_MeshIndicesPreserved ==
    \A i \in MeshIndexes :
        /\ indexCounts[i] = InitIndexCounts[i]
        /\ MeshIndices(i) = OriginalIndices(i)

\* No two batches have equal colors.
DistinctColors(batches) ==
    \A i, j \in 1..Len(batches) :
        i # j => ~ColorEquals(batches[i].color, batches[j].color)

\* C3: after every executed rebatch no two batches share a color, the number
\* of batches is the number of distinct colors before the rebatch, and the
\* primitive is left with nothing to rebatch.
C3_RebatchLeavesDistinctColors ==
    [][UpdateReturned(lastOp', "true") =>
          /\ DistinctColors(batchedIndices')
          /\ Len(batchedIndices') =
                 Cardinality({batchedIndices[k].color : k \in 1..Len(batchedIndices)})
          /\ ~batchDirty'
          /\ ~needToRebatch(batchedIndices')]_vars

\* C3 witness: a rebatch has merged batches and left more than one.
C3_Witness ==
    /\ UpdateReturned(lastOp, "true")
    /\ Len(batchedIndices) = 2
    /\ \E k \in 1..2 : Len(batchedIndices[k].batchIds) = 3
    /\ indexOffsets # InitIndexOffsets

\* The batch of `batches` that has mesh `id` as a member.
BatchOf(batches, id) ==
    CHOOSE k \in 1..Len(batches) : id \in Range(batches[k].batchIds)

\* The batches update-commands(m, c) is to leave, as a set: batch d of m
\* replaced by d shrunk to the members before m, the singleton {m} colored
\* c, and a trailing batch of d's color with the members after m.
SplitBatches(batches, offsets, counts, m, c) ==
    LET index == batchIdLookUp[m]
        d == batches[BatchOf(batches, m)]
        Before(id) == id # m /\ offsets[batchIdLookUp[id]] < offsets[index]
        After(id) == id # m /\ offsets[batchIdLookUp[id]] > offsets[index]
        before == SelectSeq(d.batchIds, Before)
        after == SelectSeq(d.batchIds, After)
        end == offsets[index] + counts[index]
    IN (Range(batches) \ {d})
       \cup {Vector3DTileBatch(c, offsets[index], counts[index], <<m>>)}
       \cup (IF before # <<>>
             THEN {Vector3DTileBatch(d.color, d.offset, offsets[index] - d.offset, before)}
             ELSE {})
       \cup (IF after # <<>>
             THEN {Vector3DTileBatch(d.color, end, d.offset + d.count - end, after)}
             ELSE {})

\* C4: update-commands(m, c) on a known mesh whose batch has other members
\* replaces the batch by the shrunk batch, the singleton and the trailing
\* batch (a side without members yields none); on [A,B,C,D] in one red batch
\* and (B, blue) the result is {A} red, {B} blue, {C,D} red.
C4_UpdateCommandsSplits ==
    [][(/\ lastOp'.op = "updateCommands"
        /\ lastOp'.batchId \in Range(batchIds)
        /\ Len(batchedIndices[BatchOf(batchedIndices, lastOp'.batchId)].batchIds) > 1)
       =>
       LET expected == SplitBatches(batchedIndices, indexOffsets, indexCounts,
                                    lastOp'.batchId, lastOp'.color)
       IN /\ Range(batchedIndices') = expected
          /\ Len(batchedIndices') = Cardinality(expected)
          /\ (/\ batchedIndices = <<Vector3DTileBatch(RED, 0, 18, batchIds)>>
              /\ lastOp'.batchId = 102
              /\ lastOp'.color = BLUE)
             => Range(batchedIndices') =
                    {Vector3DTileBatch(RED, 0, 6, <<101>>),
                     Vector3DTileBatch(BLUE, 6, 3, <<102>>),
                     Vector3DTileBatch(RED, 9, 9, <<103, 104>>)}]_vars

\* C4 witness: [A,B,C,D] in one red batch after update-commands(B, blue).
C4_Witness ==
    /\ lastOp = [op |-> "updateCommands", batchId |-> 102, color |-> BLUE]
    /\ batchedIndices =
           <<Vector3DTileBatch(RED, 0, 6, <<101>>),
             Vector3DTileBatch(BLUE, 6, 3, <<102>>),
             Vector3DTileBatch(RED, 9, 9, <<103, 104>>)>>

\* The step is a render-pass update of a dirty primitive two of whose
\* batches share a color.
RenderUpdateNeedingRebatch ==
    /\ lastOp'.op = "update"
    /\ lastOp'.frame.render
    /\ batchDirty
    /\ needToRebatch(batchedIndices)

\* The Index Store is left as it is: the typed array, the offset and count
\* tables, the contents of the authoritative buffer and, once the vertex
\* arrays exist, the buffers and their active / swap roles.
IndexStoreUnchanged ==
    /\ indices' = indices
    /\ indexOffsets' = indexOffsets
    /\ indexCounts' = indexCounts
    /\ AuthoritativeIndices' = AuthoritativeIndices
    /\ va # 0 => va' = va /\ vaSwap' = vaSwap /\ indexBuffer' = indexBuffer

\* C5: a render-pass update that needs a rebatch, without the force flag and
\* with the staleness counter below 120, leaves the Index Store and the
\* batches unchanged, leaves the primitive dirty and adds exactly one to the
\* counter.
C5_ThrottledUpdateDefers ==
    [][(/\ RenderUpdateNeedingRebatch
        /\ ~forceRebatch
        /\ framesSinceLastRebatch < 120)
       =>
       /\ IndexStoreUnchanged
       /\ batchedIndices' = batchedIndices
       /\ batchDirty'
       /\ framesSinceLastRebatch' = framesSinceLastRebatch + 1
       /\ lastOp'.ret = "undefined"]_vars

\* C5 witness: an update has deferred the rebatch for the 57th frame.
C5_Witness ==
    /\ UpdateReturned(lastOp, "undefined")
    /\ framesSinceLastRebatch = 57
    /\ batchDirty
    /\ ~forceRebatch

\* C6 as claimed: the update in which the counter reaches 120 (the 120th
\* deferred-eligible render-pass update, entered with the counter at 119)
\* executes the rebatch.
C6_RebatchOnFrame120 ==
    [][(/\ RenderUpdateNeedingRebatch
        /\ ~forceRebatch
        /\ framesSinceLastRebatch = 119)
       => lastOp'.ret = "true"]_vars

\* C6 amended: the update entered with the counter at 119 defers and takes
\* the counter to 120; the update entered with the counter at 120, the
\* 121st, executes the rebatch and resets the counter to 0.
C6_RebatchOnFrame121 ==
    [][(RenderUpdateNeedingRebatch /\ ~forceRebatch)
       =>
       /\ framesSinceLastRebatch <= 120
       /\ framesSinceLastRebatch = 119 =>
              /\ lastOp'.ret = "undefined"
              /\ framesSinceLastRebatch' = 120
              /\ batchedIndices' = batchedIndices
       /\ framesSinceLastRebatch = 120 =>
              /\ lastOp'.ret = "true"
              /\ framesSinceLastRebatch' = 0
              /\ ~batchDirty'
              /\ DistinctColors(batchedIndices')
       /\ lastOp'.ret = "true" => framesSinceLastRebatch = 120]_vars

\* C6 witness: a rebatch executed without the force flag, after an edit that
\* left three batches.
C6_Witness ==
    /\ UpdateReturned(lastOp, "true")
    /\ ~forceRebatch
    /\ edits = 1
    /\ Len(batchedIndices) = 2

\* C7: with the force flag set, a render-pass update of a dirty primitive
\* two of whose batches share a color executes the rebatch whatever the
\* staleness counter is, and leaves the counter at 0 and the dirty flag
\* clear.
C7_ForcedRebatchExecutes ==
    [][(RenderUpdateNeedingRebatch /\ forceRebatch)
       =>
       /\ lastOp'.ret = "true"
       /\ framesSinceLastRebatch' = 0
       /\ ~batchDirty'
       /\ DistinctColors(batchedIndices')]_vars

\* C7 witness: a forced rebatch has executed after an edit.
C7_Witness ==
    /\ UpdateReturned(lastOp, "true")
    /\ forceRebatch
    /\ framesSinceLastRebatch = 0
    /\ ~batchDirty
    /\ edits = 1

\* C8: after every update with the pick pass the pick command list holds
\* one stencil-preload, stencil-depth, pick-color triple per mesh, 3 x N
\* commands, all of them submitted, whatever the number of batches is.
C8_PickCommandsPerMesh ==
    (lastOp.op = "update" /\ lastOp.frame.pick) =>
        /\ Len(pickCommands) = 3 * NumMeshes
        /\ \A j \in MeshIndexes :
              /\ pickCommands[3 * j - 2].renderState = "rsStencilPreloadPass"
              /\ pickCommands[3 * j - 1].renderState = "rsStencilDepthPass"
              /\ pickCommands[3 * j].renderState = "rsPickPass"
              /\ pickCommands[3 * j].shaderProgram = "spPick"
              /\ \A k \in (3 * j - 2)..(3 * j) : pickCommands[k].boundingVolume = j
        /\ Cardinality({k \in 1..Len(commandList) :
                           commandList[k].list = "pickCommands"}) = 3 * NumMeshes

\* C8 witness: a pick-pass update with three batches for the four meshes,
\* after a rebatch has moved the meshes.
C8_Witness ==
    /\ lastOp.op = "update"
    /\ lastOp.frame.pick
    /\ Len(batchedIndices) = 3
    /\ indexOffsets # InitIndexOffsets

\* The parameters of every draw command and the commands submitted.
CommandParameters == <<commands, commandsIgnoreShow, pickCommands, commandList>>

\* The step is an update that directly follows an update with the same
\* frame flags.
RepeatedUpdate ==
    /\ lastOp.op = "update"
    /\ lastOp'.op = "update"
    /\ lastOp'.frame = lastOp.frame

\* C9 as claimed: an update repeated with the same frame flags and nothing
\* in between leaves every draw command parameter as it was.
C9_UpdateIdempotent ==
    [][RepeatedUpdate => CommandParameters' = CommandParameters]_vars

\* C9 amended: an update repeated with the same frame flags and nothing in
\* between leaves every draw command parameter as it was, except the
\* render-pass update entered dirty with the staleness counter at 120, which
\* executes the deferred rebatch.
C9_UpdateIdempotentUntilRebatch ==
    [][(/\ RepeatedUpdate
        /\ ~(lastOp'.frame.render /\ batchDirty /\ framesSinceLastRebatch = 120))
       => CommandParameters' = CommandParameters]_vars

\* C9 witness: an update repeated after the deferred rebatch has executed,
\* with every pass active.
C9_Witness ==
    /\ UpdateReturned(lastOp, "false")
    /\ lastOp.frame = FullFrame
    /\ framesSinceLastRebatch = 0
    /\ indexOffsets # InitIndexOffsets
    /\ Len(commandsIgnoreShow) > 0
    /\ Len(pickCommands) > 0

\* Every feature is shown and white.
FeaturesDefault(f) == \A i \in MeshIndexes : f[i] = DefaultFeature

\* Every batch is white.
AllWhite(batches) ==
    \A k \in 1..Len(batches) : ColorEquals(batches[k].color, WHITE)

\* One batch with offset 0 and the total count that holds every mesh id.
SingleFullRun(batches) ==
    /\ Len(batches) = 1
    /\ batches[1].offset = 0
    /\ batches[1].count = TotalIndexCount
    /\ Range(batches[1].batchIds) = Range(batchIds)
    /\ Len(batches[1].batchIds) = NumMeshes

\* The step is apply-style(none).
ClearStyleStep == lastOp'.op = "applyStyle" /\ lastOp'.style = "none"

\* C10 as claimed: apply-style(none) right after a per-feature style that
\* split the batches restores every feature and leaves a single full-range
\* batch.
C10_ClearStyleCollapses ==
    [][(/\ lastOp.op = "applyStyle"
        /\ lastOp.style = "style"
        /\ ~lastOp.simple
        /\ Len(batchedIndices) > 1
        /\ ClearStyleStep)
       =>
       /\ FeaturesDefault(features')
       /\ SingleFullRun(batchedIndices')]_vars

\* C10 amended: apply-style(none) restores every feature, recolors every
\* batch white without merging any and marks the primitive dirty; the
\* batches are a single full-range batch once the primitive is no longer
\* dirty, that is after the next executed rebatch.
C10_ClearStyleCollapsesOnRebatch ==
    [][/\ ClearStyleStep =>
            /\ FeaturesDefault(features')
            /\ AllWhite(batchedIndices')
            /\ Len(batchedIndices') = Len(batchedIndices)
            /\ batchDirty'
       /\ (AllWhite(batchedIndices') /\ ~batchDirty') =>
            SingleFullRun(batchedIndices')]_vars

\* C10 witness: apply-style(none) after the style that gave every mesh its
\* own batch: four white batches, every feature restored.
C10_Witness ==
    /\ lastOp.op = "applyStyle"
    /\ lastOp.style = "none"
    /\ Len(batchedIndices) = NumMeshes
    /\ AllWhite(batchedIndices)
    /\ FeaturesDefault(features)
    /\ batchDirty

\* The batches without their colors: ranges and members.
BatchStructure(batches) ==
    [k \in 1..Len(batches) |->
        <<batches[k].offset, batches[k].count, batches[k].batchIds>>]

\* The three command sets.
CommandSets == <<commands, commandsIgnoreShow, pickCommands>>

\* The step is an apply-style that sets the suppression flag while it
\* assigns the feature colors: apply-style(none) or a simple style.
SuppressedStyleStep ==
    lastOp'.op = "applyStyle" /\ (lastOp'.style = "none" \/ lastOp'.simple)

\* C11: update-commands with a mesh id that is not in the look-up changes
\* nothing at all, and the update-commands calls made while the suppression
\* flag is set (by the feature color assignments of apply-style(none) and of
\* a simple style) leave the ranges and members of the batches, the Index
\* Store, the staleness counter and the command sets as they were.
C11_UpdateCommandsNoOp ==
    [][/\ (lastOp'.op = "updateCommands" /\ lastOp'.batchId = UnknownBatchId)
           => Prim' = Prim
       /\ SuppressedStyleStep
           => /\ BatchStructure(batchedIndices') = BatchStructure(batchedIndices)
              /\ IndexStoreUnchanged
              /\ framesSinceLastRebatch' = framesSinceLastRebatch
              /\ CommandSets' = CommandSets]_vars

\* C11 witness: update-commands with an unknown id on a dirty primitive of
\* two batches, after a simple style has assigned red to every feature with
\* the suppression flag set.
C11_Witness ==
    /\ lastOp.op = "updateCommands"
    /\ lastOp.batchId = UnknownBatchId
    /\ \A i \in MeshIndexes : features[i].color = RED
    /\ Len(batchedIndices) = 2
    /\ batchDirty

\* The step is a render-pass update that directly follows a simple style.
RenderUpdateAfterSimpleStyle ==
    /\ lastOp.op = "applyStyle"
    /\ lastOp.simple
    /\ lastOp'.op = "update"
    /\ lastOp'.frame.render

\* C12 as claimed: a simple style recolors every batch with one color
\* without splitting any, and the render-pass update that follows it on a
\* primitive that was clean before the style neither defers nor executes a
\* rebatch.
C12_SimpleStyleSkipsRebatch ==
    [][/\ (lastOp'.op = "applyStyle" /\ lastOp'.simple)
           => /\ AllWhite(batchedIndices')
              /\ BatchStructure(batchedIndices') = BatchStructure(batchedIndices)
       /\ (RenderUpdateAfterSimpleStyle /\ ~lastOp.dirty)
           => /\ lastOp'.ret = "false"
              /\ framesSinceLastRebatch' = framesSinceLastRebatch
              /\ batchedIndices' = batchedIndices]_vars

\* C12 amended: a simple style recolors every batch white without splitting
\* any and marks the primitive dirty; the render-pass update that follows
\* skips the rebatch only when there is a single batch, and with two or more
\* batches it defers (counter plus one) or, forced or at the cap, executes
\* the rebatch that merges them into one.
C12_SimpleStyleRebatchesLater ==
    [][/\ (lastOp'.op = "applyStyle" /\ lastOp'.simple)
           => /\ AllWhite(batchedIndices')
              /\ BatchStructure(batchedIndices') = BatchStructure(batchedIndices)
              /\ batchDirty'
       /\ RenderUpdateAfterSimpleStyle
           => /\ Len(batchedIndices) = 1
                  => /\ lastOp'.ret = "false"
                     /\ ~batchDirty'
                     /\ framesSinceLastRebatch' = framesSinceLastRebatch
                     /\ batchedIndices' = batchedIndices
              /\ (Len(batchedIndices) > 1 /\ deferRebatch(Prim))
                  => /\ lastOp'.ret = "undefined"
                     /\ batchDirty'
                     /\ framesSinceLastRebatch' = framesSinceLastRebatch + 1
                     /\ batchedIndices' = batchedIndices
              /\ (Len(batchedIndices) > 1 /\ ~deferRebatch(Prim))
                  => /\ lastOp'.ret = "true"
                     /\ ~batchDirty'
                     /\ SingleFullRun(batchedIndices')]_vars

\* C12 witness: the render-pass update after a simple style on a clean
\* primitive of two batches has deferred the rebatch.
C12_Witness ==
    /\ UpdateReturned(lastOp, "undefined")
    /\ \A i \in MeshIndexes : features[i].color = RED
    /\ AllWhite(batchedIndices)
    /\ Len(batchedIndices) = 2
    /\ framesSinceLastRebatch = 1
    /\ edits = 1

\* C13: after destroy() every GPU resource the primitive created (the
\* vertex arrays and the color, stencil-only and pick shader programs) has
\* been released exactly once, and nothing that was not created has been
\* released.
C13_DestroyReleasesAll ==
    destroyed => \A n \in GpuResources : released[n] = created[n]

\* The commands of this._commands the last update submitted, by index.
SubmittedColorCommands ==
    {commandList[k].index :
        k \in {m \in 1..Len(commandList) : commandList[m].list = "commands"}}

\* C14: after a render-pass update made with wireframe mode enabled, the
\* commands submitted from the color command list are exactly the color
\* commands of the triples, one per batch, and each of them has the
\* wireframe render state and the line topology.
C14_WireframeCommands ==
    (lastOp.op = "update" /\ lastOp.frame.render /\ debugWireframe) =>
        /\ SubmittedColorCommands = {3 * j : j \in 1..Len(batchedIndices)}
        /\ \A k \in SubmittedColorCommands :
              /\ commands[k].renderState = "rsWireframe"
              /\ commands[k].primitiveType = "LINES"

\* The flag is not set by the step: it is clear afterwards or was set before.
NotNewlySet(after, before) == after => before

\* C15 as claimed: an update that rebuilds the color commands marks neither
\* the ignore-show commands nor the pick commands for rebuild (their dirty
\* flags are not set by it, and they are rebuilt in the same update only if
\* they were marked before), and the color commands are rebuilt only for
\* their own reasons.
C15_IndependentRebuilds ==
    [][lastOp'.op = "update" =>
         /\ "color" \in rebuilt' =>
               /\ NotNewlySet(commandsDirty', commandsDirty)
               /\ NotNewlySet(pickCommandsDirty', pickCommandsDirty)
               /\ "ignoreShow" \in rebuilt' => commandsDirty
               /\ "pick" \in rebuilt' => pickCommandsDirty
         /\ "color" \in rebuilt' =>
               /\ lastOp'.frame.render
               /\ \/ lastOp'.ret = "true"
                  \/ Len(commands) # 3 * Len(batchedIndices)]_vars

\* C15 amended: a rebuild of the color commands always marks the ignore-show
\* commands for rebuild (they are rebuilt in the same update when the frame
\* inverts the classification, and left marked otherwise); an executed
\* rebatch rebuilds the color commands and marks the pick commands; a color
\* rebuild without a rebatch does not mark the pick commands; the color
\* commands are rebuilt only after an executed rebatch or a change in the
\* number of batches, never because the pick or ignore-show commands were
\* rebuilt, and those rebuilds mark no other set.
C15_RebuildDependencies ==
    [][lastOp'.op = "update" =>
         /\ "color" \in rebuilt' =>
               IF lastOp'.frame.invertClassification
               THEN "ignoreShow" \in rebuilt' /\ ~commandsDirty'
               ELSE commandsDirty'
         /\ lastOp'.ret = "true" =>
               /\ "color" \in rebuilt'
               /\ IF lastOp'.frame.pick
                  THEN "pick" \in rebuilt' /\ ~pickCommandsDirty'
                  ELSE pickCommandsDirty'
         /\ lastOp'.ret # "true" =>
               NotNewlySet(pickCommandsDirty', pickCommandsDirty)
         /\ "color" \in rebuilt' =>
               /\ lastOp'.frame.render
               /\ \/ lastOp'.ret = "true"
                  \/ Len(commands) # 3 * Len(batchedIndices)
         /\ "color" \notin rebuilt' =>
               /\ commands' = commands
               /\ NotNewlySet(commandsDirty', commandsDirty)
               /\ NotNewlySet(pickCommandsDirty', pickCommandsDirty)
         /\ "ignoreShow" \in rebuilt' =>
               lastOp'.frame.invertClassification
               /\ (commandsDirty \/ "color" \in rebuilt')
         /\ "pick" \in rebuilt' =>
               lastOp'.frame.pick
               /\ (pickCommandsDirty \/ lastOp'.ret = "true")]_vars

\* C15 witness: an update with every pass active has executed a rebatch
\* after an edit and rebuilt the three command sets.
C15_Witness ==
    /\ UpdateReturned(lastOp, "true")
    /\ lastOp.frame = FullFrame
    /\ rebuilt = {"color", "ignoreShow", "pick"}
    /\ edits = 1
    /\ Len(batchedIndices) = 2

\* Nothing has been created yet (Uninitialized).
Uninitialized ==
    /\ va = 0 /\ vaSwap = 0 /\ ~sp /\ ~renderStates /\ ~_uniformMap
    /\ \A n \in ResourceNames : created[n] = 0
    /\ shaderSourceCalls = 0

\* The vertex arrays, shader programs, render states and uniform map have
\* been created once, with four calls of the shader-source transforms.
Resourced ==
    /\ va # 0 /\ sp /\ renderStates /\ _uniformMap
    /\ (vaSwap # 0) = webgl2
    /\ created["va1"] = 1
    /\ created["va2"] = (IF webgl2 THEN 1 ELSE 0)
    /\ \A n \in {"sp", "spStencil", "spPick", "renderStates", "uniformMap"} :
          created[n] = 1
    /\ created["rsWireframe"] <= 1
    /\ shaderSourceCalls = 4

\* C16: until it is destroyed the primitive is Uninitialized or Resourced;
\* it is Resourced after every update, stays Resourced, and no update
\* creates a resource again, so the shader-source transforms of the batch
\* table are called four times in total.
C16_ResourcesCreatedOnce ==
    /\ [](~destroyed => (Uninitialized \/ Resourced))
    /\ [](lastOp.op = "update" => Resourced)
    /\ [][/\ (Resourced /\ ~destroyed') => Resourced'
          /\ Resourced =>
                /\ shaderSourceCalls' = shaderSourceCalls
                /\ \A n \in GpuResources \cup {"renderStates", "uniformMap"} :
                      created'[n] = created[n]]_vars

\* C16 witness: several updates have run (the first one, and one that
\* executed a rebatch and swapped the vertex arrays after an edit) and the
\* shader-source transforms have been called four times.
C16_Witness ==
    /\ UpdateReturned(lastOp, "true")
    /\ edits = 1
    /\ va = 2
    /\ Resourced

\* The (offset, count) range of a batch or of a command.
RangeOf(x) == <<x.offset, x.count>>

\* C17: after every render-pass update the color command list holds three
\* commands per batch, the three commands of a triple carry one range, the
\* ranges of the triples are the ranges of the batches (as many triples as
\* batches, so each batch range is drawn by one triple and the triples
\* cover the index buffer once), and every command references the active
\* vertex array.
C17_CommandTriplesMatchBatches ==
    (lastOp.op = "update" /\ lastOp.frame.render) =>
        /\ Len(commands) = 3 * Len(batchedIndices)
        /\ \A j \in 1..Len(batchedIndices) :
              /\ RangeOf(commands[3 * j - 2]) = RangeOf(commands[3 * j])
              /\ RangeOf(commands[3 * j - 1]) = RangeOf(commands[3 * j])
        /\ {RangeOf(commands[3 * j]) : j \in 1..Len(batchedIndices)}
               = {RangeOf(batchedIndices[j]) : j \in 1..Len(batchedIndices)}
        /\ RangesPartition([j \in 1..Len(batchedIndices) |-> commands[3 * j]],
                           indices.length)
        /\ \A k \in 1..Len(commands) : commands[k].vertexArray = va

\* C17 witness: a render-pass update that deferred the rebatch after an
\* edit split a batch of a primitive whose meshes an earlier rebatch had
\* moved.
C17_Witness ==
    /\ UpdateReturned(lastOp, "undefined")
    /\ indexOffsets # InitIndexOffsets
    /\ Len(batchedIndices) = 3
    /\ Len(commands) = 9

\* The members of `batch`, in member-list order, are stored one after the
\* other from the batch's offset on and end at offset + count.
MembersTile(batch, offsets, counts) ==
    LET ids == batch.batchIds
        at(k) == offsets[batchIdLookUp[ids[k]]]
        n(k) == counts[batchIdLookUp[ids[k]]]
    IN /\ at(1) = batch.offset
       /\ \A k \in 1..(Len(ids) - 1) : at(k + 1) = at(k) + n(k)
       /\ at(Len(ids)) + n(Len(ids)) = batch.offset + batch.count

\* C18: in every reachable state each batch has at least one member, every
\* mesh id is a member of exactly one batch (and once), and the members'
\* index ranges, in member-list order, are contiguous and tile the range of
\* the batch.
C18_BatchesWellFormed ==
    /\ \A k \in 1..Len(batchedIndices) :
          /\ Len(batchedIndices[k].batchIds) >= 1
          /\ Range(batchedIndices[k].batchIds) \subseteq Range(batchIds)
          /\ MembersTile(batchedIndices[k], indexOffsets, indexCounts)
    /\ \A id \in Range(batchIds) :
          Cardinality({<<k, m>> \in (1..Len(batchedIndices)) \X MeshIndexes :
                          /\ m <= Len(batchedIndices[k].batchIds)
                          /\ batchedIndices[k].batchIds[m] = id}) = 1

\* C18 witness: an edit has split a batch that a rebatch had merged from
\* two batches, in an order of the meshes that differs from the original.
C18_Witness ==
    /\ lastOp.op = "updateCommands"
    /\ indexOffsets # InitIndexOffsets
    /\ Len(batchedIndices) = 3
    /\ \E k \in 1..3 : Len(batchedIndices[k].batchIds) = 2

\* C19: a render-pass update of a dirty primitive whose batches have
\* pairwise distinct colors clears the dirty flag and leaves the batches,
\* the Index Store and the staleness counter as they are, with or without
\* the force flag; and a rebatch executes only from a state that is dirty
\* and has two batches of one color.
C19_RebatchOnlyOnSharedColor ==
    [][lastOp'.op = "update" =>
         /\ (lastOp'.frame.render /\ batchDirty /\ DistinctColors(batchedIndices))
               => /\ lastOp'.ret = "false"
                  /\ ~batchDirty'
                  /\ batchedIndices' = batchedIndices
                  /\ IndexStoreUnchanged
                  /\ framesSinceLastRebatch' = framesSinceLastRebatch
         /\ (~batchDirty \/ DistinctColors(batchedIndices))
               => /\ lastOp'.ret # "true"
                  /\ batchedIndices' = batchedIndices
                  /\ IndexStoreUnchanged]_vars

\* C19 witness: after a deferred frame an edit made the colors distinct, and
\* the update cleared the dirty flag without a rebatch: the counter is still
\* that of the deferred frame and the meshes are where they were.
C19_Witness ==
    /\ UpdateReturned(lastOp, "false")
    /\ ~batchDirty
    /\ framesSinceLastRebatch = 1
    /\ edits = 1
    /\ Len(batchedIndices) = 2
    /\ indexOffsets = InitIndexOffsets
    /\ forceRebatch

\* The step leaves the batches and the Index Store untouched.
RebatchNotApplied ==
    batchedIndices' = batchedIndices /\ IndexStoreUnchanged

\* The step leaves the batches and the Index Store fully consolidated: one
\* batch per color, the batches tiling the index buffer, every mesh stored
\* inside its batch.
RebatchFullyApplied ==
    /\ lastOp'.ret = "true"
    /\ ~batchDirty'
    /\ DistinctColors(batchedIndices')
    /\ RangesPartition(batchedIndices', indices'.length)
    /\ \A k \in 1..Len(batchedIndices') :
          MembersTile(batchedIndices'[k], indexOffsets', indexCounts')

\* C20: under a scheduler that keeps calling update with the render pass, a
\* dirty primitive is eventually clean; a render-pass update that leaves the
\* primitive dirty has used one of the 120 deferrals the counter allows, and
\* the counter never passes 120, so the flag is cleared on the 121st update
\* at the latest; and every update leaves the batches and the Index Store
\* untouched or fully consolidated.
C20_DirtyEventuallyCleared ==
    /\ batchDirty ~> ~batchDirty
    /\ [](framesSinceLastRebatch <= 120)
    /\ [][lastOp'.op = "update" =>
            /\ (batchDirty /\ batchDirty')
                  => /\ framesSinceLastRebatch < 120
                     /\ framesSinceLastRebatch' = framesSinceLastRebatch + 1
                     /\ lastOp'.ret = "undefined"
            /\ (batchDirty /\ framesSinceLastRebatch = 120) => ~batchDirty'
            /\ ~batchDirty' =>
                  \/ lastOp'.ret = "true"
                  \/ ~needToRebatch(batchedIndices)
            /\ RebatchNotApplied \/ RebatchFullyApplied]_vars

\* C20 witness: the dirty flag of a primitive constructed with two batches
\* of one color has been cleared by the rebatch that executed, unforced, on
\* the update entered with the counter at the cap.
C20_Witness ==
    /\ UpdateReturned(lastOp, "true")
    /\ ~forceRebatch
    /\ ~batchDirty
    /\ edits = 0
    /\ SingleFullRun(batchedIndices)

\* The entries of the command list after the first `from` are the commands
\* 1..n of the list `name`, in their order.
QueuedAt(from, name, n) ==
    \A k \in 1..n : commandList[from + k] = [list |-> name, index |-> k]

\* The numbers of commands the last update is to queue from each list.
ColorQueued == IF lastOp.frame.render THEN 3 * Len(batchedIndices) ELSE 0

IgnoreShowQueued ==
    IF lastOp.frame.render /\ lastOp.frame.invertClassification
    THEN 2 * Len(batchedIndices) ELSE 0

PickQueued == IF lastOp.frame.pick THEN 3 * NumMeshes ELSE 0

\* Triple j of `cmds` is a stencil-preload, a stencil-depth and a `last`
\* command, in this order.
TripleOrder(cmds, j, last) ==
    /\ cmds[3 * j - 2].renderState = "rsStencilPreloadPass"
    /\ cmds[3 * j - 1].renderState = "rsStencilDepthPass"
    /\ cmds[3 * j].renderState = last

\* What the last update (wireframe off) queued: the color triples, then the
\* ignore-show commands, then the pick triples per mesh, 3 D + 2 D + 3 N
\* commands for the passes asked for.
QueueOrder ==
    /\ Len(commandList) = ColorQueued + IgnoreShowQueued + PickQueued
    /\ lastOp.frame.render =>
          /\ Len(commands) = ColorQueued
          /\ \A j \in 1..Len(batchedIndices) : TripleOrder(commands, j, "rsColorPass")
    /\ IgnoreShowQueued > 0 => Len(commandsIgnoreShow) = IgnoreShowQueued
    /\ lastOp.frame.pick =>
          /\ Len(pickCommands) = PickQueued
          /\ \A j \in MeshIndexes :
                /\ TripleOrder(pickCommands, j, "rsPickPass")
                /\ \A k \in (3 * j - 2)..(3 * j) : pickCommands[k].boundingVolume = j
    /\ QueuedAt(0, "commands", ColorQueued)
    /\ QueuedAt(ColorQueued, "commandsIgnoreShow", IgnoreShowQueued)
    /\ QueuedAt(ColorQueued + IgnoreShowQueued, "pickCommands", PickQueued)

\* Triple j of `cmds` draws the range of batch j of `batches`.
TriplesInListOrder(cmds, batches) ==
    \A j \in 1..Len(batches) :
        \A k \in (3 * j - 2)..(3 * j) : RangeOf(cmds[k]) = RangeOf(batches[j])

\* C21 as claimed: an update (wireframe off) queues, for each batch in list
\* order, its stencil-preload, stencil-depth and color command, then with
\* inverted classification the ignore-show commands, then with the pick
\* pass the pick triples per mesh: 3 D + 2 D + 3 N commands.
C21_QueueInDescriptorOrder ==
    (lastOp.op = "update" /\ ~debugWireframe) =>
        /\ QueueOrder
        /\ lastOp.frame.render => TriplesInListOrder(commands, batchedIndices)

\* C21 amended: the passes and the numbers are as claimed, but the color
\* triples are in the order the batches had when the color commands were
\* last rebuilt (after an executed rebatch or a change of the number of
\* batches); an edit that reorders the batches without changing their
\* number leaves the triples where they were, still one per batch range.
C21_QueueInRebuildOrder ==
    /\ []((lastOp.op = "update" /\ ~debugWireframe) =>
            /\ QueueOrder
            /\ lastOp.frame.render =>
                  {RangeOf(commands[3 * j]) : j \in 1..Len(batchedIndices)}
                      = {RangeOf(batchedIndices[j]) : j \in 1..Len(batchedIndices)})
    /\ [][lastOp'.op = "update" =>
            IF "color" \in rebuilt'
            THEN TriplesInListOrder(commands', batchedIndices')
            ELSE commands' = commands]_vars

\* C21 witness: an update with every pass has queued 6 + 4 + 12 commands
\* for two batches an edit had reordered since the triples were built.
C21_Witness ==
    /\ lastOp.op = "update"
    /\ lastOp.frame = FullFrame
    /\ Len(commandList) = 22
    /\ RangeOf(commands[3]) # RangeOf(batchedIndices[1])

\* `clone` is the ignore-show copy of the primary command `command`: the
\* same vertex array, offset and count, the stencil-only shader program and
\* the ignore-show pass.
IgnoreShowCopyOf(clone, command) ==
    /\ clone.vertexArray = command.vertexArray
    /\ RangeOf(clone) = RangeOf(command)
    /\ clone.renderState = command.renderState
    /\ clone.shaderProgram = "spStencil"
    /\ clone.pass = "CESIUM_3D_TILE_CLASSIFICATION_IGNORE_SHOW"

\* The commands of this._commandsIgnoreShow the last update submitted.
SubmittedIgnoreShow ==
    {commandList[k].index :
        k \in {m \in 1..Len(commandList) : commandList[m].list = "commandsIgnoreShow"}}

MeshRanges(offsets, counts) ==
    [i \in MeshIndexes |-> [offset |-> offsets[i], count |-> counts[i]]]

\* The step is an executed rebatch with buffer-to-buffer copies.
GpuRebatchStep == webgl2 /\ lastOp'.op = "update" /\ lastOp'.ret = "true"

\* The vertex arrays that are active and secondary when the rebatch of the
\* step runs: the ones of the state before, or the ones the update has just
\* created.
ActiveBefore == IF va = 0 THEN 1 ELSE va

SecondaryBefore == IF va = 0 THEN 2 ELSE vaSwap

\* C23: a secondary index buffer exists only with WebGL 2 and none is ever
\* created without it; with WebGL 2 an executed rebatch writes every mesh's
\* indices (the meshes tile the buffer, so all of it) into the secondary
\* buffer, leaves the active buffer as it is and exchanges the two roles
\* once; no other step (deferred update, update-commands, apply-style)
\* changes which buffer is active.
C23_PingPong ==
    /\ []((vaSwap # 0 \/ created["va2"] > 0) => webgl2)
    /\ []((webgl2 /\ va # 0) => (vaSwap # 0 /\ vaSwap # va /\ created["va2"] = 1))
    /\ [][IF GpuRebatchStep
          THEN /\ va' = SecondaryBefore
               /\ vaSwap' = ActiveBefore
               /\ indexBuffer'[ActiveBefore] = AuthoritativeIndices
               /\ RangesPartition(MeshRanges(indexOffsets', indexCounts'),
                                  indices'.length)
               /\ \A i \in MeshIndexes :
                     SubSeq(indexBuffer'[va'], indexOffsets'[i] + 1,
                            indexOffsets'[i] + indexCounts'[i])
                       = MeshIndices(i)
          ELSE va # 0 => (va' = va /\ vaSwap' = vaSwap)]_vars

\* C23 witness: with WebGL 2 a second executed rebatch has made the vertex
\* array created first the active one again.
C23_Witness ==
    /\ webgl2
    /\ UpdateReturned(lastOp, "true")
    /\ va = 1
    /\ vaSwap = 2
    /\ indexOffsets # InitIndexOffsets

\* The member ids in the order an executed rebatch copies them: the sorted
\* batches popped from the end, each batch's members in list order.
RECURSIVE PopOrderIds(_)
PopOrderIds(sorted) ==
    IF sorted = <<>> THEN <<>>
    ELSE sorted[Len(sorted)].batchIds
             \o PopOrderIds(SubSeq(sorted, 1, Len(sorted) - 1))

\* The running destination offset when member k of `ids` is copied: the
\* counts of the members copied before it.
DestinationOf(ids, k) ==
    SumSeq([m \in 1..(k - 1) |-> indexCounts[batchIdLookUp[ids[m]]]])

\* C24: an executed rebatch without WebGL 2 copies, for each member in copy
\* order, the count elements found at positions [offset, offset + count)
\* of the index array (positions within the array, also when it is a view
\* that starts inside its buffer) to the running destination offset,
\* records the running offset as the member's offset, and ends with the
\* running offset at the sum of the counts.
C24_CopyIndicesCPU ==
    [][(~webgl2 /\ lastOp'.op = "update" /\ lastOp'.ret = "true") =>
          LET ids == PopOrderIds(SortBatches(batchedIndices))
          IN /\ \A k \in 1..Len(ids) :
                   LET i == batchIdLookUp[ids[k]]
                       to == DestinationOf(ids, k)
                   IN /\ indexOffsets'[i] = to
                      /\ SubSeq(ArrayView(indices'), to + 1, to + indexCounts[i])
                           = SubSeq(ArrayView(indices), indexOffsets[i] + 1,
                                    indexOffsets[i] + indexCounts[i])
             /\ DestinationOf(ids, Len(ids) + 1) = indices'.length
             /\ indexBuffer'[va'] = ArrayView(indices')]_vars

\* The commands of this._pickCommands the last update submitted.
SubmittedPick ==
    {commandList[k].index :
        k \in {m \in 1..Len(commandList) : commandList[m].list = "pickCommands"}}

\* C25: whenever pick commands are submitted, the three commands of the
\* triple at position j draw the range the offset and count tables record
\* for the mesh with table index j, from the active vertex array.
C25_PickTriplesCurrent ==
    (lastOp.op = "update" /\ lastOp.frame.pick) =>
        /\ SubmittedPick = 1..(3 * NumMeshes)
        /\ \A j \in MeshIndexes :
              \A k \in (3 * j - 2)..(3 * j) :
                  /\ pickCommands[k].offset = indexOffsets[j]
                  /\ pickCommands[k].count = indexCounts[j]
                  /\ pickCommands[k].vertexArray = va

\* C25 witness: a pick-only update has rebuilt the pick commands after a
\* rebatch on an earlier frame moved the meshes and swapped the vertex
\* arrays.
C25_Witness ==
    /\ lastOp.op = "update"
    /\ lastOp.frame = PickFrame
    /\ "pick" \in rebuilt
    /\ va = 2
    /\ indexOffsets # InitIndexOffsets
    /\ Len(pickCommands) = 3 * NumMeshes

\* C26: update-commands changes the batches and the dirty flag and nothing
\* else (not the index buffers, the offset and count tables, the roles of
\* the vertex arrays, the staleness counter, the command sets or what was
\* queued), and with a known mesh id it leaves the primitive dirty, also
\* when the color is the one the mesh's batch already has.
C26_UpdateCommandsFrame ==
    [][lastOp'.op = "updateCommands" =>
          /\ [Prim' EXCEPT !.batchedIndices = batchedIndices,
                           !.batchDirty = batchDirty] = Prim
          /\ IndexStoreUnchanged
          /\ framesSinceLastRebatch' = framesSinceLastRebatch
          /\ CommandSets' = CommandSets
          /\ commandList' = commandList
          /\ lastOp'.batchId \in Range(batchIds) => batchDirty'
          /\ lastOp'.batchId \notin Range(batchIds) =>
                (batchDirty' = batchDirty /\ batchedIndices' = batchedIndices)]_vars

\* C26 witness: update-commands has left a clean primitive dirty although
\* its batches still have pairwise distinct colors, with the commands of
\* an earlier update in place.
C26_Witness ==
    /\ lastOp.op = "updateCommands"
    /\ lastOp.batchId \in Range(batchIds)
    /\ batchDirty
    /\ DistinctColors(batchedIndices)
    /\ va # 0
    /\ Len(commands) = 3 * Len(batchedIndices)
    /\ edits = 2

\* C27: an update with the pick pass and without the render pass does not
\* call rebatchCommands: the batches, the Index Store, the dirty flag, the
\* staleness counter and the color and ignore-show commands stay as they
\* are; the counter moves on render-pass updates only.
C27_PickOnlyUpdate ==
    [][/\ (lastOp'.op = "update" /\ ~lastOp'.frame.render) =>
             /\ lastOp'.ret = "none"
             /\ batchedIndices' = batchedIndices
             /\ IndexStoreUnchanged
             /\ batchDirty' = batchDirty
             /\ framesSinceLastRebatch' = framesSinceLastRebatch
             /\ commands' = commands
             /\ commandsIgnoreShow' = commandsIgnoreShow
             /\ commandsDirty' = commandsDirty
       /\ framesSinceLastRebatch' # framesSinceLastRebatch =>
             (lastOp'.op = "update" /\ lastOp'.frame.render)]_vars

\* C27 witness: a pick-only update of a dirty primitive whose rebatch an
\* earlier render-pass update had deferred: still dirty, two batches of one
\* color, the counter where the deferral left it.
C27_Witness ==
    /\ lastOp.op = "update"
    /\ ~lastOp.frame.render
    /\ lastOp.frame.pick
    /\ batchDirty
    /\ needToRebatch(batchedIndices)
    /\ framesSinceLastRebatch = 1
    /\ ~forceRebatch

\* C28 as claimed: the staleness counter lies in 0..120 and is 0 whenever
\* the primitive is not dirty.
C28_CounterZeroWhenClean ==
    /\ framesSinceLastRebatch \in 0..120
    /\ ~batchDirty => framesSinceLastRebatch = 0

\* C28 amended: the counter lies in 0..120; an executed rebatch, and
\* nothing else, resets it to 0; a render-pass update that clears the dirty
\* flag because no two batches share a color leaves the counter where the
\* deferred frames before it took it, and those frames are missing from
\* the deferral window of the next edit.
C28_CounterResetByRebatchOnly ==
    /\ [](framesSinceLastRebatch \in 0..120)
    /\ [][/\ UpdateReturned(lastOp', "true") =>
                (framesSinceLastRebatch' = 0 /\ ~batchDirty')
          /\ UpdateReturned(lastOp', "false") =>
                (framesSinceLastRebatch' = framesSinceLastRebatch /\ ~batchDirty')
          /\ UpdateReturned(lastOp', "undefined") =>
                (framesSinceLastRebatch' = framesSinceLastRebatch + 1 /\ batchDirty')
          /\ framesSinceLastRebatch' < framesSinceLastRebatch =>
                UpdateReturned(lastOp', "true")
          /\ framesSinceLastRebatch' # framesSinceLastRebatch =>
                lastOp'.op = "update"]_vars

\* C28 witness: after 120 deferred frames an edit made the colors distinct
\* and the update cleared the dirty flag: a clean primitive with the
\* counter at the cap.
C28_Witness ==
    /\ UpdateReturned(lastOp, "false")
    /\ ~batchDirty
    /\ framesSinceLastRebatch = 120
    /\ edits = 1
    /\ DistinctColors(batchedIndices)

\* C29: in every state between two public operations the suppression flag
\* is clear: apply-style with no style, with a simple style and with a
\* style over feature variables each return with the flag clear, and an
\* update-commands call with a known id made afterwards takes effect.
C29_SuppressionFlagClear ==
    /\ [](~updatingAllCommands)
    /\ [][(lastOp.op = "applyStyle" /\ lastOp'.op = "updateCommands"
              /\ lastOp'.batchId \in Range(batchIds))
           => /\ batchDirty'
              /\ \E k \in 1..Len(batchedIndices') :
                    /\ batchedIndices'[k].batchIds = <<lastOp'.batchId>>
                    /\ ColorEquals(batchedIndices'[k].color, lastOp'.color)]_vars

\* C29 witness: after a simple style had set and cleared the flag and
\* whitened every batch, update-commands has given a mesh a batch of
\* another color.
C29_Witness ==
    /\ lastOp.op = "updateCommands"
    /\ \A i \in MeshIndexes : features[i].color = RED
    /\ ~AllWhite(batchedIndices)
    /\ edits = 2
    /\ ~updatingAllCommands

\* The primitive a WebGL 2 run has where the run without WebGL 2 has Prim:
\* the same fields, vertex array `active` holding what is drawn and its
\* swap partner holding `spare`.  Before the first update the two runs
\* have the same fields.
GpuTwin(active, spare) ==
    IF va = 0 THEN Prim
    ELSE [Prim EXCEPT
            !.va = active,
            !.vaSwap = 3 - active,
            !.indexBuffer = IF active = 1
                            THEN <<AuthoritativeIndices, spare>>
                            ELSE <<spare, AuthoritativeIndices>>]

\* What the swap buffer of the twin may hold.
SpareContents == {[k \in 1..TotalIndexCount |-> 0], AuthoritativeIndices}

\* Primitive g of the WebGL 2 run matches the state after the step: the
\* same batches, offset table and drawn index buffer, and the same dirty
\* flag and staleness counter.
MatchesAfter(g) ==
    /\ g.batchedIndices = batchedIndices'
    /\ g.indexOffsets = indexOffsets'
    /\ g.batchDirty = batchDirty'
    /\ g.framesSinceLastRebatch = framesSinceLastRebatch'
    /\ (IF g.va = 0 THEN ArrayView(g.indices) ELSE g.indexBuffer[g.va])
           = AuthoritativeIndices'

\* C30: the run without WebGL 2 and the run with it stay in step: from
\* matching states (the same batches, offset table and drawn index buffer)
\* every update and every update-commands call leads to matching states,
\* whichever of its two vertex arrays the WebGL 2 run has active.
C30_StrategiesEquivalent ==
    [][~webgl2 =>
         \A active \in {1, 2}, spare \in SpareContents :
            /\ lastOp'.op = "update" =>
                  \A r \in {update(GpuTwin(active, spare), lastOp'.frame, TRUE)} :
                      MatchesAfter(r.p) /\ r.ret = lastOp'.ret
            /\ lastOp'.op = "updateCommands" =>
                  MatchesAfter(updateCommands(GpuTwin(active, spare),
                                              lastOp'.batchId, lastOp'.color))]_vars
====
